---- MODULE Spec2Model ----
(***************************************************************************)
(* Model of ml4tc's auxiliary tooling:                                     *)
(*   scripts/match_cnn_predictions_to_ships.py  (_match_examples, _run)    *)
(*   io/satellite_io.py         (find_file, find_cyclones,                 *)
(*                               file_name_to_cyclone_id)                  *)
(*   scripts/plot_occlusion_maps.py             (_smooth_maps, _run)       *)
(*   plotting/satellite_plotting.py (plot_2d_grid_regular, add_colour_bar, *)
(*                               plot_saliency, plot_class_activation)     *)
(*                                                                         *)
(* Conventions.                                                            *)
(*  - A numpy array of length n is a function with domain 0..n-1, so the   *)
(*    indices (and the -1 placeholder) are the ones the Python code uses.  *)
(*  - Latitudes and longitudes are integers counting quarter degrees       *)
(*    (Deg(1) = 4), so that separations below one degree exist.            *)
(*  - Distances are kept squared.  numpy.sqrt is strictly increasing on    *)
(*    the non-negative numbers, hence min, argmin and the comparison with  *)
(*    MAX_DISTANCE_DEG give the same answer on squares as on roots.        *)
(***************************************************************************)
EXTENDS Integers, Sequences, FiniteSets, TLC

VARIABLES
    cnn_prediction_dict,    \* argument of _match_examples / read by _run
    ships_prediction_dict,  \* argument of _match_examples / read by _run
    pc,                     \* position of the running function
    i,                      \* loop variable of _match_examples
    cnn_to_ships_indices,   \* local array of _match_examples
    cnn_indices,            \* first return value of _match_examples
    ships_indices,          \* second return value of _match_examples
    ncalls,                 \* number of calls of _match_examples made so far
    returned,               \* log of the finished calls: arguments and results
    predict_td_to_ts,       \* _run: flag read from the CNN metafile
    use_ri_consensus,       \* _run: argument
    use_td_to_ts_lge,       \* _run: argument
    output_file,            \* _run: what prediction_io.write_file was given
    find_args,              \* find_file: its five arguments
    files,                  \* the paths that are files in the file system
    satellite_file_name,    \* find_file: local variable
    find_result,            \* find_file: what it returned or raised
    num_lookups,            \* find_file: calls of os.path.isfile made so far
    parsed_id,              \* file_name_to_cyclone_id: what it returned or raised
    cyc_args,               \* find_cyclones: its two arguments
    satellite_file_names,   \* find_cyclones: local list (what glob.glob returned)
    cyclone_id_strings,     \* find_cyclones: local list
    cyc_result,             \* find_cyclones: what it returned or raised
    occ_args,               \* plot_occlusion_maps._run: its arguments
    occ_read,               \* what occlusion.read_file returned
    occlusion_dict,         \* the dictionary of _run and _smooth_maps
    occ_i,                  \* loop variable i of _smooth_maps
    occ_plotted,            \* the dictionary that was given to the plotting
    plot_args,              \* satellite_plotting: the function called, its arguments
    axes_object,            \* the drawing calls made on the axes so far
    plot_result             \* what the plotting function returned or raised

matchVars == <<cnn_prediction_dict, ships_prediction_dict, pc, i,
               cnn_to_ships_indices, cnn_indices, ships_indices>>

\* matchVars without pc
matchData == <<cnn_prediction_dict, ships_prediction_dict, i,
               cnn_to_ships_indices, cnn_indices, ships_indices>>

callVars == <<ncalls, returned>>

runVars == <<predict_td_to_ts, use_ri_consensus, use_td_to_ts_lge, output_file>>

findVars == <<find_args, files, satellite_file_name, find_result, num_lookups,
              parsed_id>>

cycloneVars == <<cyc_args, satellite_file_names, cyclone_id_strings, cyc_result>>

\* the variables of the functions modelled after find_file
occlusionVars == <<occ_args, occ_read, occlusion_dict, occ_i, occ_plotted>>

plotVars == <<plot_args, axes_object, plot_result>>

auxVars == <<cycloneVars, occlusionVars, plotVars>>

vars == <<matchVars, callVars, runVars, findVars, auxVars>>

-----------------------------------------------------------------------------
(* Bounds of the model *)

MaxCnn == 2
MaxShips == 2
MaxCalls == 3
MaxExamples == 2

-----------------------------------------------------------------------------
(* numpy helpers *)

EmptyArr == [k \in {} |-> 0]

len(a) == Cardinality(DOMAIN a)

ArrAppend(a, x) == [k \in 0..len(a) |-> IF k < len(a) THEN a[k] ELSE x]

RECURSIVE WhereFrom(_, _, _)
WhereFrom(mask, k, acc) ==
    IF k >= len(mask) THEN acc
    ELSE WhereFrom(mask, k + 1, IF mask[k] THEN ArrAppend(acc, k) ELSE acc)

\* numpy.where(mask)[0]: the indices where mask holds, ascending
numpy_where(mask) == WhereFrom(mask, 0, EmptyArr)

\* a[idx] for an index array idx
Take(a, idx) == [k \in DOMAIN idx |-> a[idx[k]]]

\* numpy.min of a non-empty array
numpy_min(a) == CHOOSE v \in {a[k] : k \in DOMAIN a} : \A k \in DOMAIN a : v <= a[k]

\* numpy.argmin: first position of the minimum
numpy_argmin(a) ==
    LET m == numpy_min(a) IN
    CHOOSE p \in DOMAIN a :
        /\ a[p] = m
        /\ \A q \in DOMAIN a : a[q] = m => p <= q

\* numpy.minimum: element-wise minimum
numpy_minimum(a, b) == [k \in DOMAIN a |-> IF a[k] <= b[k] THEN a[k] ELSE b[k]]

-----------------------------------------------------------------------------
(* Units and longitude conventions *)

Deg(x) == 4 * x

MAX_DISTANCE_DEG == Deg(1)

\* longitudes the conversion routines accept: -180..360 deg E
ValidLng(x) == Deg(-180) <= x /\ x <= Deg(360)

\* western-hemisphere values become 180..360 deg E
convert_lng_positive_in_west(lng) ==
    [k \in DOMAIN lng |-> IF lng[k] < 0 THEN lng[k] + Deg(360) ELSE lng[k]]

\* western-hemisphere values become -180..0 deg E
convert_lng_negative_in_west(lng) ==
    [k \in DOMAIN lng |-> IF lng[k] > Deg(180) THEN lng[k] - Deg(360) ELSE lng[k]]

-----------------------------------------------------------------------------
(* Inputs of _match_examples *)

InitTimes == {1, 2}

\* CNN examples: 359.75 deg E (just west of the prime meridian) and
\* 179.75 deg E (just west of the antimeridian), on the equator
CnnLatitudes == {Deg(0)}
CnnLongitudes == {Deg(360) - 1, Deg(180) - 1}

\* SHIPS positions <<latitude, longitude>>:
\*   0 N, 0.25 E      half a degree from 359.75 E, across the prime meridian
\*   0 N, -179.75 E   half a degree from 179.75 E, across the antimeridian
\*   1 N, -0.25 E     exactly one degree from 0 N, 359.75 E
\*   1 N, 0.25 E      more than one degree from 0 N, 359.75 E
ShipsPositions ==
    {<<Deg(0), 1>>, <<Deg(0), Deg(-180) + 1>>, <<Deg(1), -1>>, <<Deg(1), 1>>}

CnnExamples == [t : InitTimes, lat : CnnLatitudes, lng : CnnLongitudes]
ShipsExamples ==
    {[t |-> t, lat |-> q[1], lng |-> q[2]] : t \in InitTimes, q \in ShipsPositions}

Rows(S, max) == UNION {[0..(n - 1) -> S] : n \in 0..max}

\* columnar dictionary as read by prediction_io.read_file
CnnDictOf(rows) ==
    [init_times |-> [k \in DOMAIN rows |-> rows[k].t],
     storm_latitudes |-> [k \in DOMAIN rows |-> rows[k].lat],
     storm_longitudes |-> [k \in DOMAIN rows |-> rows[k].lng]]

\* columnar dictionary as read by ships_prediction_io.read_ri_file
ShipsDictOf(rows) ==
    [init_times |-> [k \in DOMAIN rows |-> rows[k].t],
     init_latitudes |-> [k \in DOMAIN rows |-> rows[k].lat],
     init_longitudes |-> [k \in DOMAIN rows |-> rows[k].lng]]

CnnDicts == {CnnDictOf(rows) : rows \in Rows(CnnExamples, MaxCnn)}
ShipsDicts == {ShipsDictOf(rows) : rows \in Rows(ShipsExamples, MaxShips)}

-----------------------------------------------------------------------------
(* _match_examples *)

\* variant: the SHIPS longitudes are used as read, without conversion
ships_pos_longitudes_unconverted(ships) == ships.init_longitudes

ships_pos_longitudes_deg_e(ships) ==
    convert_lng_positive_in_west(ships.init_longitudes)

ships_neg_longitudes_deg_e(ships) ==
    convert_lng_negative_in_west(ships.init_longitudes)

cnn_pos_longitudes_deg_e(cnn) ==
    convert_lng_positive_in_west(cnn.storm_longitudes)

cnn_neg_longitudes_deg_e(cnn) ==
    convert_lng_negative_in_west(cnn.storm_longitudes)

\* variant: the initialization times are not compared
SameTimeIndices_AnyTime(cnn, ships, n) ==
    numpy_where([j \in DOMAIN ships.init_times |-> TRUE])

\* js = numpy.where(ships_init_times_unix_sec == cnn_init_times_unix_sec[i])[0]
SameTimeIndices(cnn, ships, n) ==
    numpy_where([j \in DOMAIN ships.init_times |->
                    ships.init_times[j] = cnn.init_times[n]])

\* squares of first_distances_deg
first_distances_deg(cnn, ships, n, js) ==
    LET cnn_pos == cnn_pos_longitudes_deg_e(cnn)
        ships_pos == ships_pos_longitudes_deg_e(ships)
    IN [p \in DOMAIN js |->
          (cnn.storm_latitudes[n] - ships.init_latitudes[js[p]])
            * (cnn.storm_latitudes[n] - ships.init_latitudes[js[p]])
          + (cnn_pos[n] - ships_pos[js[p]]) * (cnn_pos[n] - ships_pos[js[p]])]

\* squares of second_distances_deg
second_distances_deg(cnn, ships, n, js) ==
    LET cnn_neg == cnn_neg_longitudes_deg_e(cnn)
        ships_neg == ships_neg_longitudes_deg_e(ships)
    IN [p \in DOMAIN js |->
          (cnn.storm_latitudes[n] - ships.init_latitudes[js[p]])
            * (cnn.storm_latitudes[n] - ships.init_latitudes[js[p]])
          + (cnn_neg[n] - ships_neg[js[p]]) * (cnn_neg[n] - ships_neg[js[p]])]

\* variant: only the positive-west distances are used
these_distances_first_only(cnn, ships, n, js) ==
    first_distances_deg(cnn, ships, n, js)

\* squares of these_distances_deg
these_distances_deg(cnn, ships, n, js) ==
    numpy_minimum(first_distances_deg(cnn, ships, n, js),
                  second_distances_deg(cnn, ships, n, js))

\* variant: the check for an empty js is missing
NoCandidates_Unchecked(js) == FALSE

\* if len(js) == 0: continue
NoCandidates(js) == len(js) = 0

\* variant: the distance is not compared with the threshold
TooFar_Unchecked(distances) == FALSE

\* if numpy.min(these_distances_deg) > MAX_DISTANCE_DEG: continue
TooFar(distances) ==
    numpy_min(distances) > MAX_DISTANCE_DEG * MAX_DISTANCE_DEG

\* variant: the first candidate is taken instead of the nearest
Nearest_First(js, distances) == js[0]

\* js[numpy.argmin(these_distances_deg)]
Nearest(js, distances) == js[numpy_argmin(distances)]

\* one iteration of the loop over the CNN examples; raised: numpy.min of an
\* empty array raises ValueError
LoopBody(cnn, ships, c2s, n) ==
    LET js == SameTimeIndices(cnn, ships, n) IN
    IF NoCandidates(js) THEN [raised |-> FALSE, c2s |-> c2s]
    ELSE IF len(js) = 0 THEN [raised |-> TRUE, c2s |-> c2s]
    ELSE LET d == these_distances_deg(cnn, ships, n, js) IN
         IF TooFar(d) THEN [raised |-> FALSE, c2s |-> c2s]
         ELSE [raised |-> FALSE, c2s |-> [c2s EXCEPT ![n] = Nearest(js, d)]]

\* variant: the array of an earlier call is used again when its length fits
FreshIndices_Reused(cnn) ==
    IF DOMAIN cnn_to_ships_indices = DOMAIN cnn.init_times
    THEN cnn_to_ships_indices
    ELSE [k \in DOMAIN cnn.init_times |-> -1]

\* cnn_to_ships_indices = numpy.full(num_cnn_examples, -1, dtype=int)
FreshIndices(cnn) == [k \in DOMAIN cnn.init_times |-> -1]

\* variant: the -1 placeholders pass the filter
MatchedIndices_WithPlaceholders(c2s) ==
    numpy_where([k \in DOMAIN c2s |-> c2s[k] >= -1])

\* cnn_indices = numpy.where(cnn_to_ships_indices >= 0)[0]
MatchedIndices(c2s) == numpy_where([k \in DOMAIN c2s |-> c2s[k] >= 0])

RECURSIVE MatchLoop(_, _, _, _)
MatchLoop(cnn, ships, c2s, n) ==
    IF n >= len(cnn.init_times) THEN [raised |-> FALSE, c2s |-> c2s]
    ELSE LET r == LoopBody(cnn, ships, c2s, n) IN
         IF r.raised THEN r ELSE MatchLoop(cnn, ships, r.c2s, n + 1)

\* the whole function, as a value: its two return arrays, or raised
match_examples(cnn, ships) ==
    LET r == MatchLoop(cnn, ships, FreshIndices(cnn), 0)
        matched == MatchedIndices(r.c2s)
    IN IF r.raised THEN [raised |-> TRUE, cnn_indices |-> EmptyArr,
                         ships_indices |-> EmptyArr]
       ELSE [raised |-> FALSE,
             cnn_indices |-> matched,
             ships_indices |-> Take(r.c2s, matched)]

\* find_file is not running
NoFind ==
    /\ find_args = [called |-> FALSE]
    /\ files = {}
    /\ satellite_file_name = <<>>
    /\ find_result = [kind |-> "none"]
    /\ num_lookups = 0
    /\ parsed_id = [kind |-> "none"]

\* _match_examples and _run are not running
NoMatch ==
    /\ cnn_prediction_dict = [init_times |-> EmptyArr]
    /\ ships_prediction_dict = [init_times |-> EmptyArr]
    /\ i = 0
    /\ cnn_to_ships_indices = EmptyArr
    /\ cnn_indices = EmptyArr
    /\ ships_indices = EmptyArr
    /\ ncalls = 0
    /\ returned = <<>>

\* _run is not running
NoRun ==
    /\ predict_td_to_ts = FALSE
    /\ use_ri_consensus = FALSE
    /\ use_td_to_ts_lge = FALSE
    /\ output_file = [written |-> FALSE]

\* find_cyclones is not running
NoCyclones ==
    /\ cyc_args = [called |-> FALSE]
    /\ satellite_file_names = <<>>
    /\ cyclone_id_strings = <<>>
    /\ cyc_result = [kind |-> "none"]

\* none of the functions modelled after find_file is running
\* plot_occlusion_maps._run is not running
NoOcclusion ==
    /\ occ_args = [called |-> FALSE]
    /\ occ_read = <<>>
    /\ occlusion_dict = <<>>
    /\ occ_i = 0
    /\ occ_plotted = [plotted |-> FALSE]

\* no function of satellite_plotting is running
NoPlot ==
    /\ plot_args = [function |-> "none"]
    /\ axes_object = <<>>
    /\ plot_result = [kind |-> "none"]

NoAux == NoCyclones /\ NoOcclusion /\ NoPlot

-----------------------------------------------------------------------------
(* Spec: one call of _match_examples, one loop iteration per step *)

Init ==
    /\ cnn_prediction_dict \in CnnDicts
    /\ ships_prediction_dict \in ShipsDicts
    /\ pc = "start"
    /\ i = 0
    /\ cnn_to_ships_indices = EmptyArr
    /\ cnn_indices = EmptyArr
    /\ ships_indices = EmptyArr
    /\ ncalls = 1
    /\ returned = <<>>
    /\ NoRun
    /\ NoFind
    /\ NoAux

\* lines 76-99: read the arrays, set every entry of cnn_to_ships_indices to -1
Begin ==
    /\ pc = "start"
    /\ cnn_to_ships_indices' = FreshIndices(cnn_prediction_dict)
    /\ i' = 0
    /\ pc' = "loop"
    /\ UNCHANGED <<cnn_prediction_dict, ships_prediction_dict,
                   cnn_indices, ships_indices>>
    /\ UNCHANGED <<callVars, runVars, findVars, auxVars>>

\* lines 101-124: one iteration of the loop
LoopIter ==
    /\ pc = "loop"
    /\ i < len(cnn_prediction_dict.init_times)
    /\ LET r == LoopBody(cnn_prediction_dict, ships_prediction_dict,
                         cnn_to_ships_indices, i) IN
         /\ cnn_to_ships_indices' = r.c2s
         /\ pc' = IF r.raised THEN "raised" ELSE "loop"
    /\ i' = i + 1
    /\ UNCHANGED <<cnn_prediction_dict, ships_prediction_dict,
                   cnn_indices, ships_indices>>
    /\ UNCHANGED <<callVars, runVars, findVars, auxVars>>

\* lines 126-133: keep the matched examples and return
Finish ==
    /\ pc = "loop"
    /\ i >= len(cnn_prediction_dict.init_times)
    /\ cnn_indices' = MatchedIndices(cnn_to_ships_indices)
    /\ ships_indices' = Take(cnn_to_ships_indices,
                             MatchedIndices(cnn_to_ships_indices))
    /\ pc' = "done"
    /\ returned' = Append(returned,
          [cnn |-> cnn_prediction_dict, ships |-> ships_prediction_dict,
           cnn_indices |-> cnn_indices', ships_indices |-> ships_indices'])
    /\ UNCHANGED <<cnn_prediction_dict, ships_prediction_dict, i,
                   cnn_to_ships_indices, ncalls>>
    /\ UNCHANGED <<runVars, findVars, auxVars>>

Next == Begin \/ LoopIter \/ Finish

Spec == Init /\ [][Next]_vars

-----------------------------------------------------------------------------
(* SpecCalls: a caller that calls _match_examples several times.  The locals
   of one call are still in memory when the next call starts. *)

CallCnnExamples == {[t |-> 1, lat |-> Deg(0), lng |-> Deg(360) - 1]}

CallShipsExamples ==
    {[t |-> 1, lat |-> Deg(0), lng |-> 1], [t |-> 2, lat |-> Deg(0), lng |-> 1]}

CallCnnDicts == {CnnDictOf(rows) : rows \in Rows(CallCnnExamples, MaxCnn)}

CallShipsDicts ==
    {ShipsDictOf(EmptyArr)}
        \cup {ShipsDictOf([k \in {0} |-> e]) : e \in CallShipsExamples}

InitCalls ==
    /\ cnn_prediction_dict = CnnDictOf(EmptyArr)
    /\ ships_prediction_dict = ShipsDictOf(EmptyArr)
    /\ pc = "idle"
    /\ i = 0
    /\ cnn_to_ships_indices = EmptyArr
    /\ cnn_indices = EmptyArr
    /\ ships_indices = EmptyArr
    /\ ncalls = 0
    /\ returned = <<>>
    /\ NoRun
    /\ NoFind
    /\ NoAux

\* the caller calls _match_examples with two dictionaries of its choice
Call ==
    /\ pc \in {"idle", "done"}
    /\ ncalls < MaxCalls
    /\ ncalls' = ncalls + 1
    /\ cnn_prediction_dict' \in CallCnnDicts
    /\ ships_prediction_dict' \in CallShipsDicts
    /\ pc' = "start"
    /\ UNCHANGED <<i, cnn_to_ships_indices, cnn_indices, ships_indices, returned>>
    /\ UNCHANGED <<runVars, findVars, auxVars>>

NextCalls == Call \/ Begin \/ LoopIter \/ Finish

SpecCalls == InitCalls /\ [][NextCalls]_vars

-----------------------------------------------------------------------------
(* _run of match_cnn_predictions_to_ships.py.  Probabilities count
   hundredths; numpy.nan is the value NaN. *)

Arr(seq) == [k \in 0..(Len(seq) - 1) |-> seq[k + 1]]

NaN == -1000000

\* value that marks a missing forecast in the SHIPS files
MissingValue == -999

\* x[x < -0.1] = numpy.nan
NanIfMissing(x) == IF x < -10 THEN NaN ELSE x

\* 1. - x
Complement(x) == IF x = NaN THEN NaN ELSE 100 - x

\* int(flag)
\* variant: the two columns are taken the other way round
BoolToInt_Swapped(flag) == IF flag THEN 0 ELSE 1

BoolToInt(flag) == IF flag THEN 1 ELSE 0

CycloneIdTable == <<"2005AL01", "2005AL02", "2005EP03", "2006WP04">>

\* the rows of the CNN arrays that _match_examples does not read differ from
\* example to example
CycloneIdOf(k) == CycloneIdTable[(k % Len(CycloneIdTable)) + 1]
TargetRowOf(k) == IF k % 2 = 0 THEN Arr(<<1, 0>>) ELSE Arr(<<0, 1>>)

\* row j of the SHIPS probability arrays; row `missing` holds no forecast
RiRowOf(j, missing) ==
    IF j = missing THEN Arr(<<MissingValue, 10 * (j + 1) + 5>>)
    ELSE Arr(<<10 * (j + 1), 10 * (j + 1) + 5>>)

LgeRowOf(j, missing, num_leads) ==
    [m \in 0..(num_leads - 1) |->
        IF j = missing THEN MissingValue ELSE 10 * (j + 1) + m]

LandRowOf(j, missing, num_leads) ==
    [m \in 0..(num_leads - 1) |->
        IF j = missing /\ m = 0 THEN MissingValue ELSE 50 + 10 * (j + 1) + m]

RunCnnExamples == [t : InitTimes, lat : {Deg(0)}, lng : {Deg(360) - 1}]

RunShipsExamples == [t : InitTimes, lat : {Deg(0), Deg(1)}, lng : {1}]

\* lead times (hours) of the CNN file and of the SHIPS file
RunLeadTimes ==
    {[cnn |-> Arr(<<12>>), ships |-> Arr(<<12, 24>>)],
     [cnn |-> Arr(<<24, 12>>), ships |-> Arr(<<12, 24>>)],
     [cnn |-> Arr(<<12, 36>>), ships |-> Arr(<<12, 24>>)]}

MissingRows == {-1, 0}

\* dictionary returned by prediction_io.read_file
RunCnnDictOf(rows, leads) ==
    [init_times |-> [k \in DOMAIN rows |-> rows[k].t],
     storm_latitudes |-> [k \in DOMAIN rows |-> rows[k].lat],
     storm_longitudes |-> [k \in DOMAIN rows |-> rows[k].lng],
     cyclone_ids |-> [k \in DOMAIN rows |-> CycloneIdOf(k)],
     target_matrix |-> [k \in DOMAIN rows |-> TargetRowOf(k)],
     lead_times |-> leads]

\* dictionary returned by ships_prediction_io.read_ri_file
RunShipsRiDictOf(rows, missing) ==
    [init_times |-> [k \in DOMAIN rows |-> rows[k].t],
     init_latitudes |-> [k \in DOMAIN rows |-> rows[k].lat],
     init_longitudes |-> [k \in DOMAIN rows |-> rows[k].lng],
     ri_probabilities |-> [k \in DOMAIN rows |-> RiRowOf(k, missing)]]

\* dictionary returned by ships_prediction_io.read_td_to_ts_file
RunShipsTdDictOf(rows, missing, leads) ==
    [init_times |-> [k \in DOMAIN rows |-> rows[k].t],
     init_latitudes |-> [k \in DOMAIN rows |-> rows[k].lat],
     init_longitudes |-> [k \in DOMAIN rows |-> rows[k].lng],
     lead_times |-> leads,
     forecast_labels_lge |-> [k \in DOMAIN rows |-> LgeRowOf(k, missing, len(leads))],
     forecast_labels_land |-> [k \in DOMAIN rows |-> LandRowOf(k, missing, len(leads))]]

\* lines 149-176: the files have been read
InitRun ==
    /\ predict_td_to_ts \in BOOLEAN
    /\ use_ri_consensus \in BOOLEAN
    /\ use_td_to_ts_lge \in BOOLEAN
    /\ \E leads \in RunLeadTimes, missing \in MissingRows :
          /\ cnn_prediction_dict \in
                {RunCnnDictOf(rows, leads.cnn) : rows \in Rows(RunCnnExamples, MaxCnn)}
          /\ ships_prediction_dict \in
                IF predict_td_to_ts
                THEN {RunShipsTdDictOf(rows, missing, leads.ships) :
                         rows \in Rows(RunShipsExamples, MaxShips)}
                ELSE {RunShipsRiDictOf(rows, missing) :
                         rows \in Rows(RunShipsExamples, MaxShips)}
    /\ output_file = [written |-> FALSE]
    /\ pc = "run_start"
    /\ i = 0
    /\ cnn_to_ships_indices = EmptyArr
    /\ cnn_indices = EmptyArr
    /\ ships_indices = EmptyArr
    /\ ncalls = 0
    /\ returned = <<>>
    /\ NoFind
    /\ NoAux

\* lines 178-181: cnn_indices, ships_indices = _match_examples(...)
RunMatch ==
    /\ pc = "run_start"
    /\ LET r == match_examples(cnn_prediction_dict, ships_prediction_dict) IN
         /\ cnn_indices' = r.cnn_indices
         /\ ships_indices' = r.ships_indices
         /\ pc' = IF r.raised THEN "run_raised" ELSE "run_matched"
    /\ UNCHANGED <<cnn_prediction_dict, ships_prediction_dict, i,
                   cnn_to_ships_indices, callVars, runVars, findVars, auxVars>>

\* numpy.where(ships_lead_times_hours == l)[0][0], or -1 where that raises
\* IndexError; the test `l not in cnn_lead_times_hours` of line 189 is false
\* for every l of cnn_lead_times_hours
LeadTimeIndex(ships_lead_times_hours, l) ==
    LET found == numpy_where([m \in DOMAIN ships_lead_times_hours |->
                                 ships_lead_times_hours[m] = l])
    IN IF len(found) = 0 THEN -1 ELSE found[0]

\* lines 188-192
lead_time_indices(cnn_lead_times_hours, ships_lead_times_hours) ==
    [m \in DOMAIN cnn_lead_times_hours |->
        LeadTimeIndex(ships_lead_times_hours, cnn_lead_times_hours[m])]

\* lines 194-197
this_key_matrix(ships, lge) ==
    IF lge THEN ships.forecast_labels_lge ELSE ships.forecast_labels_land

\* lines 199-204
ships_prob_matrix_ships_lead_times(ships, lge, s_indices) ==
    [k \in DOMAIN s_indices |->
        [m \in DOMAIN this_key_matrix(ships, lge)[s_indices[k]] |->
            NanIfMissing(this_key_matrix(ships, lge)[s_indices[k]][m])]]

\* lines 207-224: the E-by-K-by-L-by-S matrix
ships_prob_matrix_cnn_lead_times(ships, lge, s_indices, lti) ==
    LET by_ships_lead == ships_prob_matrix_ships_lead_times(ships, lge, s_indices)
    IN [k \in DOMAIN s_indices |->
          [c \in 0..1 |->
              [m \in DOMAIN lti |->
                  [q \in {0} |->
                      IF c = 1 THEN by_ships_lead[k][lti[m]]
                      ELSE Complement(by_ships_lead[k][lti[m]])]]]]

\* variant: the SHIPS rows are taken at the CNN indices
ships_probabilities_at_cnn_indices(ships, s_indices, consensus) ==
    [k \in DOMAIN s_indices |->
        NanIfMissing(ships.ri_probabilities[cnn_indices[k]][BoolToInt(consensus)])]

\* lines 251-257
ships_probabilities(ships, s_indices, consensus) ==
    [k \in DOMAIN s_indices |->
        NanIfMissing(ships.ri_probabilities[s_indices[k]][BoolToInt(consensus)])]

\* lines 259-265: the E-by-K-by-L-by-S matrix
ships_prob_matrix(probabilities) ==
    [k \in DOMAIN probabilities |->
        [c \in 0..1 |->
            [m \in {0} |->
                [q \in {0} |->
                    IF c = 1 THEN probabilities[k]
                    ELSE Complement(probabilities[k])]]]]

\* the keyword arguments of prediction_io.write_file (lines 231-247, 273-289)
WrittenFile(matrix, d, c_indices) ==
    [written |-> TRUE,
     forecast_probability_matrix |-> matrix,
     target_class_matrix |-> Take(d.target_matrix, c_indices),
     cyclone_id_strings |-> Take(d.cyclone_ids, c_indices),
     init_times_unix_sec |-> Take(d.init_times, c_indices),
     storm_latitudes_deg_n |-> Take(d.storm_latitudes, c_indices),
     storm_longitudes_deg_e |-> Take(d.storm_longitudes, c_indices),
     lead_times_hours |-> d.lead_times]

\* lines 183-249: the TD-to-TS branch
WriteTdToTs ==
    /\ pc = "run_matched"
    /\ predict_td_to_ts
    /\ LET lti == lead_time_indices(cnn_prediction_dict.lead_times,
                                    ships_prediction_dict.lead_times)
       IN IF \E m \in DOMAIN lti : lti[m] = -1
          THEN /\ pc' = "run_raised"
               /\ output_file' = output_file
          ELSE /\ pc' = "run_written"
               /\ output_file' = WrittenFile(
                     ships_prob_matrix_cnn_lead_times(
                         ships_prediction_dict, use_td_to_ts_lge, ships_indices, lti),
                     cnn_prediction_dict, cnn_indices)
    /\ UNCHANGED <<cnn_prediction_dict, ships_prediction_dict, i,
                   cnn_to_ships_indices, cnn_indices, ships_indices, callVars,
                   predict_td_to_ts, use_ri_consensus, use_td_to_ts_lge, findVars, auxVars>>

\* lines 251-289: the rapid-intensification branch
WriteRi ==
    /\ pc = "run_matched"
    /\ ~predict_td_to_ts
    /\ pc' = "run_written"
    /\ output_file' = WrittenFile(
          ships_prob_matrix(ships_probabilities(
              ships_prediction_dict, ships_indices, use_ri_consensus)),
          cnn_prediction_dict, cnn_indices)
    /\ UNCHANGED <<cnn_prediction_dict, ships_prediction_dict, i,
                   cnn_to_ships_indices, cnn_indices, ships_indices, callVars,
                   predict_td_to_ts, use_ri_consensus, use_td_to_ts_lge, findVars, auxVars>>

NextRun == RunMatch \/ WriteTdToTs \/ WriteRi

SpecRun == InitRun /\ [][NextRun]_vars

-----------------------------------------------------------------------------
(* find_file of io/satellite_io.py.  A Python string is a sequence of
   characters; a flag argument is a Python object with its type and its truth
   value. *)

GZIP_FILE_EXTENSION == <<".", "g", "z">>

Digits == {"0", "1", "2", "3", "4", "5", "6", "7", "8", "9"}

UpperCase == {"A", "B", "C", "D", "E", "F", "G", "H", "I", "J", "K", "L", "M",
              "N", "O", "P", "Q", "R", "S", "T", "U", "V", "W", "X", "Y", "Z"}

\* the basin IDs that satellite_utils.parse_cyclone_id knows
ValidBasinIds ==
    {<<"A", "L">>, <<"S", "L">>, <<"E", "P">>, <<"C", "P">>, <<"W", "P">>,
     <<"I", "O">>, <<"S", "H">>}

\* satellite_utils.parse_cyclone_id returns without raising: the string has the
\* form YYYYBBNN of CYCLONE_ID_REGEX and BB is a known basin
CycloneIdAccepted(id) ==
    /\ Len(id) = 8
    /\ \A k \in {1, 2, 3, 4, 7, 8} : id[k] \in Digits
    /\ \A k \in {5, 6} : id[k] \in UpperCase
    /\ <<id[5], id[6]>> \in ValidBasinIds

\* error_checking.assert_is_boolean returns without raising
IsBoolean(x) == x.type = "bool"

PyBool(b) == [type |-> "bool", truth |-> b]

\* a flag argument that is no bool: the int 1
PyOne == [type |-> "int", truth |-> TRUE]

\* '{0:s}/cira_satellite_{1:s}.nc{2:s}'.format(...)
FormatFileName(directory_name, cyclone_id_string, extension) ==
    directory_name
        \o <<"/", "c", "i", "r", "a", "_", "s", "a", "t", "e", "l", "l", "i", "t", "e", "_">>
        \o cyclone_id_string \o <<".", "n", "c">> \o extension

\* os.path.isfile
isfile(path) == path \in files

\* variant: raise_error_if_missing is not looked at
FinalReturns_FlagIgnored(exists, raise_error_if_missing) == exists

\* os.path.isfile(satellite_file_name) or not raise_error_if_missing
FinalReturns(exists, raise_error_if_missing) ==
    exists \/ ~raise_error_if_missing.truth

FindDirectories == {<<"d">>, <<"a", ".", "b", "_", "c">>}

FindCycloneIds ==
    {<<"2", "0", "0", "5", "A", "L", "1", "2">>,
     <<"2", "0", "0", "5", "a", "l", "1", "2">>,
     <<"A", "L", "1", "2">>}

\* the paths that may be files: both formats of one cyclone in each directory
PossibleFiles ==
    {FormatFileName(d, <<"2", "0", "0", "5", "A", "L", "1", "2">>, e) :
        d \in FindDirectories, e \in {<<>>, GZIP_FILE_EXTENSION}}

FlagValues == {PyBool(TRUE), PyBool(FALSE), PyOne}

InitFind ==
    /\ find_args \in [called : {TRUE},
                      directory_name : FindDirectories,
                      cyclone_id_string : FindCycloneIds,
                      prefer_zipped : FlagValues,
                      allow_other_format : FlagValues,
                      raise_error_if_missing : FlagValues]
    /\ files \in SUBSET PossibleFiles
    /\ satellite_file_name = <<>>
    /\ find_result = [kind |-> "none"]
    /\ num_lookups = 0
    /\ parsed_id = [kind |-> "none"]
    /\ pc = "find_start"
    /\ NoMatch
    /\ NoRun
    /\ NoAux

\* lines 33-37: the arguments are checked
FindCheckArgs ==
    /\ pc = "find_start"
    /\ IF /\ CycloneIdAccepted(find_args.cyclone_id_string)
          /\ IsBoolean(find_args.prefer_zipped)
          /\ IsBoolean(find_args.allow_other_format)
          /\ IsBoolean(find_args.raise_error_if_missing)
       THEN pc' = "find_preferred" /\ find_result' = find_result
       ELSE pc' = "find_rejected" /\ find_result' = [kind |-> "rejected"]
    /\ UNCHANGED <<find_args, files, satellite_file_name, num_lookups, parsed_id>>
    /\ UNCHANGED <<matchData, callVars, runVars, auxVars>>

\* lines 39-45: the name in the preferred format; returned if it is a file
FindPreferred ==
    /\ pc = "find_preferred"
    /\ satellite_file_name' =
          FormatFileName(find_args.directory_name, find_args.cyclone_id_string,
                         IF find_args.prefer_zipped.truth
                         THEN GZIP_FILE_EXTENSION ELSE <<>>)
    /\ num_lookups' = num_lookups + 1
    /\ IF isfile(satellite_file_name')
       THEN /\ pc' = "find_returned"
            /\ find_result' = [kind |-> "returned", value |-> satellite_file_name']
       ELSE /\ pc' = "find_other"
            /\ find_result' = find_result
    /\ UNCHANGED <<find_args, files, parsed_id>>
    /\ UNCHANGED <<matchData, callVars, runVars, auxVars>>

\* variant: the other format is tried whether or not it is allowed
other_format_name_always(name, prefer_zipped, allow_other_format) ==
    IF prefer_zipped.truth
    THEN SubSeq(name, 1, Len(name) - Len(GZIP_FILE_EXTENSION))
    ELSE name \o GZIP_FILE_EXTENSION

\* lines 47-53: satellite_file_name after the `if allow_other_format` block
other_format_name(name, prefer_zipped, allow_other_format) ==
    IF allow_other_format.truth
    THEN IF prefer_zipped.truth
         THEN SubSeq(name, 1, Len(name) - Len(GZIP_FILE_EXTENSION))
         ELSE name \o GZIP_FILE_EXTENSION
    ELSE name

\* lines 47-53: the name in the other format, if that is allowed
FindOther ==
    /\ pc = "find_other"
    /\ satellite_file_name' =
          other_format_name(satellite_file_name, find_args.prefer_zipped,
                            find_args.allow_other_format)
    /\ pc' = "find_final"
    /\ UNCHANGED <<find_args, files, find_result, num_lookups, parsed_id>>
    /\ UNCHANGED <<matchData, callVars, runVars, auxVars>>

\* lines 55-61: return the name, or raise ValueError
FindFinal ==
    /\ pc = "find_final"
    /\ num_lookups' = num_lookups + 1
    /\ IF FinalReturns(isfile(satellite_file_name), find_args.raise_error_if_missing)
       THEN /\ pc' = "find_returned"
            /\ find_result' = [kind |-> "returned", value |-> satellite_file_name]
       ELSE /\ pc' = "find_raised"
            /\ find_result' = [kind |-> "ValueError"]
    /\ UNCHANGED <<find_args, files, satellite_file_name, parsed_id>>
    /\ UNCHANGED <<matchData, callVars, runVars, auxVars>>

\* str.find from the left: position of the first sep in s, 0 if there is none
RECURSIVE FirstIndexOf(_, _, _)
FirstIndexOf(s, sep, k) ==
    IF k > Len(s) THEN 0
    ELSE IF s[k] = sep THEN k
    ELSE FirstIndexOf(s, sep, k + 1)

\* str.rfind: position of the last sep in s, 0 if there is none
RECURSIVE LastIndexOf(_, _, _)
LastIndexOf(s, sep, k) ==
    IF k < 1 THEN 0
    ELSE IF s[k] = sep THEN k
    ELSE LastIndexOf(s, sep, k - 1)

\* s.split(sep)[0]
SplitFirst(s, sep) ==
    LET k == FirstIndexOf(s, sep, 1)
    IN  IF k = 0 THEN s ELSE SubSeq(s, 1, k - 1)

\* s.split(sep)[-1]
SplitLast(s, sep) ==
    LET k == LastIndexOf(s, sep, Len(s))
    IN  SubSeq(s, k + 1, Len(s))

\* variant: the directory is not taken off the path
pathless_file_name_unsplit(path) == path

\* line 118: os.path.split(satellite_file_name)[1]
pathless_file_name(path) == SplitLast(path, "/")

\* lines 117-123: file_name_to_cyclone_id
file_name_to_cyclone_id(path) ==
    LET cyclone_id_string == SplitLast(SplitFirst(pathless_file_name(path), "."), "_")
    IN  IF CycloneIdAccepted(cyclone_id_string)
        THEN [kind |-> "returned", value |-> cyclone_id_string]
        ELSE [kind |-> "raised"]

\* the caller gives the path that find_file returned to file_name_to_cyclone_id
FindParse ==
    /\ pc = "find_returned"
    /\ parsed_id' = file_name_to_cyclone_id(find_result.value)
    /\ pc' = "find_parsed"
    /\ UNCHANGED <<find_args, files, satellite_file_name, find_result, num_lookups>>
    /\ UNCHANGED <<matchData, callVars, runVars, auxVars>>

NextFind == FindCheckArgs \/ FindPreferred \/ FindOther \/ FindFinal \/ FindParse

SpecFind == InitFind /\ [][NextFind]_vars

-----------------------------------------------------------------------------
(* find_cyclones of io/satellite_io.py *)

\* the characters of a cyclone ID in the order of their code points
CharOrder ==
    <<"0", "1", "2", "3", "4", "5", "6", "7", "8", "9",
      "A", "B", "C", "D", "E", "F", "G", "H", "I", "J", "K", "L", "M",
      "N", "O", "P", "Q", "R", "S", "T", "U", "V", "W", "X", "Y", "Z">>

\* ord(c)
Ord(c) == CHOOSE k \in 1..Len(CharOrder) : CharOrder[k] = c

\* a < b for Python strings: the first differing character decides, a proper
\* prefix is smaller
RECURSIVE StrLess(_, _)
StrLess(a, b) ==
    IF b = <<>> THEN FALSE
    ELSE IF a = <<>> THEN TRUE
    ELSE IF Head(a) = Head(b) THEN StrLess(Tail(a), Tail(b))
    ELSE Ord(Head(a)) < Ord(Head(b))

\* list.sort(): x is put into the sorted list acc, after the elements not
\* greater than it
RECURSIVE SortedInsert(_, _)
SortedInsert(acc, x) ==
    IF acc = <<>> THEN <<x>>
    ELSE IF StrLess(x, Head(acc)) THEN <<x>> \o acc
    ELSE <<Head(acc)>> \o SortedInsert(Tail(acc), x)

RECURSIVE ListSort(_)
ListSort(list) ==
    IF list = <<>> THEN <<>>
    ELSE SortedInsert(ListSort(Tail(list)), Head(list))

\* variant: the duplicates are kept
list_of_set_with_duplicates(list) == list

\* line 97: list(set(cyclone_id_strings)), each element once
RECURSIVE list_of_set(_)
list_of_set(list) ==
    IF list = <<>> THEN <<>>
    ELSE LET rest == list_of_set(Tail(list))
         IN  IF \E k \in 1..Len(rest) : rest[k] = Head(list)
             THEN rest
             ELSE <<Head(list)>> \o rest

\* the path matches '<directory_name>/cira_satellite_' + CYCLONE_ID_REGEX + '.nc'
\* + extension, as glob.glob decides it
GlobMatches(path, directory_name, extension) ==
    LET prefix == directory_name
            \o <<"/", "c", "i", "r", "a", "_", "s", "a", "t", "e", "l", "l", "i", "t", "e", "_">>
        suffix == <<".", "n", "c">> \o extension
        n == Len(prefix)
    IN  /\ Len(path) = n + 8 + Len(suffix)
        /\ SubSeq(path, 1, n) = prefix
        /\ \A k \in {1, 2, 3, 4, 7, 8} : path[n + k] \in Digits
        /\ \A k \in {5, 6} : path[n + k] \in UpperCase
        /\ SubSeq(path, n + 9, Len(path)) = suffix

\* the lists glob.glob may return for a set of matching paths: any order
GlobOrders(S) ==
    {list \in [1..Cardinality(S) -> S] :
        \A k, l \in 1..Cardinality(S) : list[k] = list[l] => k = l}

\* lines 89-95: the IDs of the names that file_name_to_cyclone_id accepts, in
\* the order of the names
RECURSIVE ParsedIds(_)
ParsedIds(names) ==
    IF names = <<>> THEN <<>>
    ELSE LET r == file_name_to_cyclone_id(Head(names))
         IN  IF r.kind = "returned"
             THEN <<r.value>> \o ParsedIds(Tail(names))
             ELSE ParsedIds(Tail(names))

\* variant: the flag is not looked at
AllMissingRaises_FlagIgnored(raise_error_if_all_missing, ids) == Len(ids) = 0

\* line 100: raise_error_if_all_missing and len(cyclone_id_strings) == 0
AllMissingRaises(raise_error_if_all_missing, ids) ==
    raise_error_if_all_missing.truth /\ Len(ids) = 0

\* the cyclone IDs in the names of the files: two known cyclones, one of an
\* unknown basin, one in lower case
CycCycloneIds ==
    {<<"2", "0", "0", "5", "A", "L", "1", "2">>,
     <<"2", "0", "0", "4", "E", "P", "0", "1">>,
     <<"2", "0", "0", "5", "Z", "Z", "1", "2">>,
     <<"2", "0", "0", "5", "a", "l", "1", "2">>}

CycPossibleFiles ==
    {FormatFileName(<<"d">>, <<"2", "0", "0", "5", "A", "L", "1", "2">>, <<>>),
     FormatFileName(<<"d">>, <<"2", "0", "0", "5", "A", "L", "1", "2">>, GZIP_FILE_EXTENSION),
     FormatFileName(<<"d">>, <<"2", "0", "0", "4", "E", "P", "0", "1">>, <<>>),
     FormatFileName(<<"d">>, <<"2", "0", "0", "4", "E", "P", "0", "1">>, GZIP_FILE_EXTENSION),
     FormatFileName(<<"d">>, <<"2", "0", "0", "5", "Z", "Z", "1", "2">>, <<>>),
     FormatFileName(<<"d">>, <<"2", "0", "0", "5", "a", "l", "1", "2">>, <<>>),
     FormatFileName(<<"a", ".", "b", "_", "c">>,
                    <<"2", "0", "0", "5", "A", "L", "1", "2">>, GZIP_FILE_EXTENSION)}

InitCyclones ==
    /\ cyc_args \in [called : {TRUE},
                     directory_name : FindDirectories,
                     raise_error_if_all_missing : FlagValues]
    /\ files \in SUBSET CycPossibleFiles
    /\ satellite_file_names = <<>>
    /\ cyclone_id_strings = <<>>
    /\ cyc_result = [kind |-> "none"]
    /\ pc = "cyc_start"
    /\ find_args = [called |-> FALSE]
    /\ satellite_file_name = <<>>
    /\ find_result = [kind |-> "none"]
    /\ num_lookups = 0
    /\ parsed_id = [kind |-> "none"]
    /\ NoMatch
    /\ NoRun
    /\ NoOcclusion
    /\ NoPlot

\* lines 77-78: the arguments are checked
CycCheckArgs ==
    /\ pc = "cyc_start"
    /\ IF IsBoolean(cyc_args.raise_error_if_all_missing)
       THEN pc' = "cyc_glob" /\ cyc_result' = cyc_result
       ELSE pc' = "cyc_rejected" /\ cyc_result' = [kind |-> "rejected"]
    /\ UNCHANGED <<cyc_args, satellite_file_names, cyclone_id_strings>>
    /\ UNCHANGED <<matchData, callVars, runVars, findVars, occlusionVars, plotVars>>

\* lines 80-85: the unzipped files, then the zipped ones
CycGlob ==
    /\ pc = "cyc_glob"
    /\ \E unzipped \in GlobOrders({f \in files :
                           GlobMatches(f, cyc_args.directory_name, <<>>)}),
          zipped \in GlobOrders({f \in files :
                           GlobMatches(f, cyc_args.directory_name, GZIP_FILE_EXTENSION)}) :
          satellite_file_names' = unzipped \o zipped
    /\ pc' = "cyc_loop"
    /\ UNCHANGED <<cyc_args, cyclone_id_strings, cyc_result>>
    /\ UNCHANGED <<matchData, callVars, runVars, findVars, occlusionVars, plotVars>>

\* lines 87-95: the ID of every file name that has one
CycParse ==
    /\ pc = "cyc_loop"
    /\ cyclone_id_strings' = ParsedIds(satellite_file_names)
    /\ pc' = "cyc_sort"
    /\ UNCHANGED <<cyc_args, satellite_file_names, cyc_result>>
    /\ UNCHANGED <<matchData, callVars, runVars, findVars, occlusionVars, plotVars>>

\* lines 97-98: duplicates out, then sorted
CycSort ==
    /\ pc = "cyc_sort"
    /\ cyclone_id_strings' = ListSort(list_of_set(cyclone_id_strings))
    /\ pc' = "cyc_final"
    /\ UNCHANGED <<cyc_args, satellite_file_names, cyc_result>>
    /\ UNCHANGED <<matchData, callVars, runVars, findVars, occlusionVars, plotVars>>

\* lines 100-107: raise ValueError, or return the list
CycFinal ==
    /\ pc = "cyc_final"
    /\ IF AllMissingRaises(cyc_args.raise_error_if_all_missing, cyclone_id_strings)
       THEN /\ pc' = "cyc_raised"
            /\ cyc_result' = [kind |-> "ValueError"]
       ELSE /\ pc' = "cyc_returned"
            /\ cyc_result' = [kind |-> "returned", value |-> cyclone_id_strings]
    /\ UNCHANGED <<cyc_args, satellite_file_names, cyclone_id_strings>>
    /\ UNCHANGED <<matchData, callVars, runVars, findVars, occlusionVars, plotVars>>

NextCyclones == CycCheckArgs \/ CycGlob \/ CycParse \/ CycSort \/ CycFinal

SpecCyclones == InitCyclones /\ [][NextCyclones]_vars

-----------------------------------------------------------------------------
(* _smooth_maps and _run of scripts/plot_occlusion_maps.py.  An occlusion map
   is a row of pixels; the dictionary maps its keys to its entries. *)

NORMALIZED_OCCLUSION_KEY == "normalized_occlusion_matrix"
OCCLUSION_PROBS_KEY == "occlusion_prob_matrix"
CYCLONE_IDS_KEY == "cyclone_id_strings"
INIT_TIMES_KEY == "init_times_unix_sec"
MODEL_FILE_KEY == "model_file_name"

OcclusionKeys ==
    {NORMALIZED_OCCLUSION_KEY, OCCLUSION_PROBS_KEY, CYCLONE_IDS_KEY,
     INIT_TIMES_KEY, MODEL_FILE_KEY}

\* the pixels of a map that are at most radius pixels away from pixel k
Neighbours(map, k, radius) ==
    {j \in DOMAIN map : j - k <= radius /\ k - j <= radius}

RECURSIVE SumOver(_, _)
SumOver(map, S) ==
    IF S = {} THEN 0
    ELSE LET j == CHOOSE j \in S : TRUE
         IN  map[j] + SumOver(map, S \ {j})

\* gg_general_utils.apply_gaussian_filter: a new map of the same shape, every
\* pixel a mean of the pixels around it (here the unweighted mean of the
\* pixels within the radius, rounded down)
apply_gaussian_filter(input_matrix, e_folding_radius_grid_cells) ==
    [k \in DOMAIN input_matrix |->
        LET S == Neighbours(input_matrix, k, e_folding_radius_grid_cells)
        IN  SumOver(input_matrix, S) \div Cardinality(S)]

\* variant: the normalized maps are taken whatever the flag says
smooth_key_always_normalized(plot_normalized_occlusion) == NORMALIZED_OCCLUSION_KEY

\* lines 111-114: this_key
smooth_key(plot_normalized_occlusion) ==
    IF plot_normalized_occlusion
    THEN NORMALIZED_OCCLUSION_KEY
    ELSE OCCLUSION_PROBS_KEY

\* line 339: smoothing_radius_px > 0
SmoothingWanted(smoothing_radius_px) == smoothing_radius_px > 0

OcclusionMaps == {<<0, 0, 6>>, <<6, 0, 0>>, <<3, 3, 3>>}

SmoothingRadii == {-1, 0, 1, 2}

\* the dictionary that occlusion.read_file returns for n examples
OcclusionDicts(n) ==
    {[key \in OcclusionKeys |->
        CASE key = NORMALIZED_OCCLUSION_KEY -> normalized
          [] key = OCCLUSION_PROBS_KEY -> probs
          [] key = CYCLONE_IDS_KEY -> [k \in 0..(n - 1) |-> CycloneIdOf(k)]
          [] key = INIT_TIMES_KEY -> [k \in 0..(n - 1) |-> k + 1]
          [] OTHER -> "model.h5"] :
     normalized \in [0..(n - 1) -> OcclusionMaps],
     probs \in [0..(n - 1) -> OcclusionMaps]}

\* lines 330-337: the occlusion file has been read
InitOcclusion ==
    /\ occ_args \in [called : {TRUE},
                     smoothing_radius_px : SmoothingRadii,
                     plot_normalized_occlusion : BOOLEAN]
    /\ \E n \in 0..MaxExamples : occ_read \in OcclusionDicts(n)
    /\ occlusion_dict = occ_read
    /\ occ_i = 0
    /\ occ_plotted = [plotted |-> FALSE]
    /\ pc = "occ_read"
    /\ NoMatch
    /\ NoRun
    /\ NoFind
    /\ NoCyclones
    /\ NoPlot

\* line 339: _smooth_maps is called, or not
OccDecide ==
    /\ pc = "occ_read"
    /\ pc' = IF SmoothingWanted(occ_args.smoothing_radius_px)
             THEN "occ_smooth" ELSE "occ_ready"
    /\ occ_i' = 0
    /\ UNCHANGED <<occ_args, occ_read, occlusion_dict, occ_plotted>>
    /\ UNCHANGED <<matchData, callVars, runVars, findVars, cycloneVars, plotVars>>

\* lines 119-123: one iteration of the loop of _smooth_maps.  occlusion_matrix
\* is the array that the dictionary holds, so the dictionary sees the write.
OccSmoothOne ==
    /\ pc = "occ_smooth"
    /\ LET this_key == smooth_key(occ_args.plot_normalized_occlusion)
           occlusion_matrix == occlusion_dict[this_key]
       IN  IF occ_i < len(occlusion_matrix)
           THEN /\ occlusion_dict' =
                      [occlusion_dict EXCEPT ![this_key] =
                          [occlusion_matrix EXCEPT ![occ_i] =
                              apply_gaussian_filter(occlusion_matrix[occ_i],
                                                    occ_args.smoothing_radius_px)]]
                /\ occ_i' = occ_i + 1
                /\ pc' = pc
           ELSE /\ occlusion_dict' = occlusion_dict
                /\ occ_i' = occ_i
                /\ pc' = "occ_ready"
    /\ UNCHANGED <<occ_args, occ_read, occ_plotted>>
    /\ UNCHANGED <<matchData, callVars, runVars, findVars, cycloneVars, plotVars>>

\* lines 346-406: the dictionary goes to _plot_occlusion_map_one_example
OccPlot ==
    /\ pc = "occ_ready"
    /\ occ_plotted' = [plotted |-> TRUE, occlusion_dict |-> occlusion_dict]
    /\ pc' = "occ_plotted"
    /\ UNCHANGED <<occ_args, occ_read, occlusion_dict, occ_i>>
    /\ UNCHANGED <<matchData, callVars, runVars, findVars, cycloneVars, plotVars>>

NextOcclusion == OccDecide \/ OccSmoothOne \/ OccPlot

SpecOcclusion == InitOcclusion /\ [][NextOcclusion]_vars

-----------------------------------------------------------------------------
(* plot_2d_grid_regular, add_colour_bar, plot_saliency and
   plot_class_activation of plotting/satellite_plotting.py.  A numpy array is
   its number of dimensions and its rows (a 1-D array has one row); a Python
   object is its type and its value; axes_object is the
   sequence of the drawing calls made on it.  Contour values count units of
   TOLERANCE. *)

TOLERANCE == 1

Array1(values) == [ndim |-> 1, values |-> <<values>>]

\* the values of a 1-D array
Coords(array) == array.values[1]

Array2(rows) == [ndim |-> 2, values |-> rows]

\* array.shape of a matrix
Shape(array) == <<Len(array.values), Len(array.values[1])>>

PyNone == [type |-> "NoneType", value |-> "None"]

PyStr(s) == [type |-> "str", value |-> s]

PyInt(n) == [type |-> "int", value |-> n]

PyFloat(n) == [type |-> "float", value |-> n]

\* error_checking.assert_is_greater_numpy_array(numpy.diff(coords), 0.)
DiffsPositive(coords) ==
    \A k \in 1..(Len(coords) - 1) : coords[k + 1] - coords[k] > 0

\* error_checking.assert_is_valid_lat_numpy_array
ValidLatitudes(coords) ==
    \A k \in 1..Len(coords) : coords[k] >= Deg(-90) /\ coords[k] <= Deg(90)

\* the values of a matrix
MatrixValues(array) ==
    {array.values[r][c] : r \in 1..Len(array.values), c \in 1..Len(array.values[1])}

\* error_checking.assert_is_numpy_array(matrix, exact_dimensions=expected_dim)
HasExactDimensions(array, num_rows, num_columns) ==
    /\ array.ndim = 2
    /\ Shape(array) = <<num_rows, num_columns>>

\* lines 169-195: every check of plot_2d_grid_regular passes
GridChecksPass(args) ==
    /\ args.latitudes_deg_n.ndim = 1
    /\ ValidLatitudes(Coords(args.latitudes_deg_n))
    /\ DiffsPositive(Coords(args.latitudes_deg_n))
    /\ args.longitudes_deg_e.ndim = 1
    /\ \A k \in 1..Len(Coords(args.longitudes_deg_e)) :
          ValidLng(Coords(args.longitudes_deg_e)[k])
    /\ DiffsPositive(convert_lng_negative_in_west(Coords(args.longitudes_deg_e)))
    /\ HasExactDimensions(args.matrix, Len(Coords(args.latitudes_deg_n)),
                          Len(Coords(args.longitudes_deg_e)))
    /\ \A v \in MatrixValues(args.matrix) : v = NaN \/ v > 0
    /\ args.cbar_orientation_string.type # "NoneType"
          => args.cbar_orientation_string.type = "str"

\* lines 108-115: every check of add_colour_bar passes
ColourBarChecksPass(matrix, orientation_string, font_size) ==
    /\ matrix.ndim = 2
    /\ \A v \in MatrixValues(matrix) : v = NaN \/ v >= 0
    /\ orientation_string.type = "str"
    /\ font_size.value > 0

\* variant: the colour bar is added whatever the orientation is
ColourBarWanted_Always(cbar_orientation_string) == TRUE

\* line 224: cbar_orientation_string is not None
ColourBarWanted(cbar_orientation_string) ==
    cbar_orientation_string.type # "NoneType"

\* lines 262-291, 350-377: every check of plot_saliency, and of
\* plot_class_activation, passes
ContourChecksPass(args) ==
    /\ args.latitudes_deg_n.ndim = 1
    /\ DiffsPositive(Coords(args.latitudes_deg_n))
    /\ args.longitudes_deg_e.ndim = 1
    /\ DiffsPositive(Coords(args.longitudes_deg_e))
    /\ \A v \in MatrixValues(args.matrix) : v # NaN
    /\ HasExactDimensions(args.matrix, Len(Coords(args.latitudes_deg_n)),
                          Len(Coords(args.longitudes_deg_e)))
    /\ args.num_contours.type = "int"
    /\ args.num_contours.value >= 5

\* max([x, y])
Max2(x, y) == IF x >= y THEN x ELSE y

\* lines 285-288, 373-374: the contour values that are returned
ContourLimits(min_contour_value, max_contour_value) ==
    LET lower == Max2(min_contour_value, TOLERANCE)
    IN  <<lower, Max2(max_contour_value, lower + TOLERANCE)>>

PlotLatitudes ==
    {Array1(<<Deg(10), Deg(20)>>), Array1(<<Deg(20), Deg(10)>>),
     Array1(<<Deg(10), Deg(10)>>), Array1(<<Deg(80), Deg(100)>>),
     Array2(<<<<Deg(10), Deg(20)>>>>)}

PlotLongitudes ==
    {Array1(<<Deg(10), Deg(20)>>), Array1(<<Deg(20), Deg(10)>>),
     Array1(<<Deg(350), Deg(10)>>), Array2(<<<<Deg(10), Deg(20)>>>>)}

PlotMatrices ==
    {Array2(<<<<250, 260>>, <<270, 280>>>>),
     Array2(<<<<250, NaN>>, <<270, 280>>>>),
     Array2(<<<<0, 260>>, <<270, 280>>>>),
     Array2(<<<<250, 260, 265>>, <<270, 280, 285>>>>),
     Array1(<<250, 260>>)}

\* None, the two orientations, and an argument that is no string: the int 1
PlotOrientations ==
    {PyNone, PyStr("vertical"), PyStr("horizontal"), [type |-> "int", value |-> "1"]}

PlotFontSizes == {PyFloat(30), PyFloat(0)}

PlotNumContours == {PyInt(5), PyInt(4), PyFloat(5)}

GridArgs ==
    [function : {"plot_2d_grid_regular"},
     matrix : PlotMatrices,
     latitudes_deg_n : PlotLatitudes,
     longitudes_deg_e : PlotLongitudes,
     cbar_orientation_string : PlotOrientations,
     font_size : PlotFontSizes]

ContourArgs ==
    [function : {"plot_saliency", "plot_class_activation"},
     matrix : PlotMatrices,
     latitudes_deg_n : PlotLatitudes,
     longitudes_deg_e : PlotLongitudes,
     min_contour_value : {0, 5},
     max_contour_value : {0, 10},
     num_contours : PlotNumContours]

InitPlot ==
    /\ \/ plot_args \in GridArgs
       \/ plot_args \in ContourArgs
    /\ axes_object = <<>>
    /\ plot_result = [kind |-> "none"]
    /\ pc = "plot_start"
    /\ NoMatch
    /\ NoRun
    /\ NoFind
    /\ NoCyclones
    /\ NoOcclusion

\* lines 169-195: the checks of plot_2d_grid_regular
PlotGridCheck ==
    /\ pc = "plot_start"
    /\ plot_args.function = "plot_2d_grid_regular"
    /\ IF GridChecksPass(plot_args)
       THEN pc' = "grid_mesh" /\ plot_result' = plot_result
       ELSE /\ pc' = "plot_raised"
            /\ plot_result' = [kind |-> "raised", in |-> "plot_2d_grid_regular"]
    /\ UNCHANGED <<plot_args, axes_object>>
    /\ UNCHANGED <<matchData, callVars, runVars, findVars, cycloneVars, occlusionVars>>

\* lines 197-222: the mesh is drawn
PlotGridMesh ==
    /\ pc = "grid_mesh"
    /\ axes_object' = Append(axes_object, "pcolormesh")
    /\ pc' = "grid_colour_bar"
    /\ UNCHANGED <<plot_args, plot_result>>
    /\ UNCHANGED <<matchData, callVars, runVars, findVars, cycloneVars, occlusionVars>>

\* lines 224-232 and add_colour_bar (lines 108-143): None is returned, or the
\* colour bar is checked, drawn and returned
PlotGridColourBar ==
    /\ pc = "grid_colour_bar"
    /\ IF ~ColourBarWanted(plot_args.cbar_orientation_string)
       THEN /\ plot_result' = [kind |-> "returned", value |-> PyNone]
            /\ axes_object' = axes_object
            /\ pc' = "plot_returned"
       ELSE IF ColourBarChecksPass(plot_args.matrix,
                                   plot_args.cbar_orientation_string,
                                   plot_args.font_size)
       THEN /\ plot_result' =
                  [kind |-> "returned",
                   value |-> [type |-> "colour_bar_object",
                              orientation_string |-> plot_args.cbar_orientation_string,
                              font_size |-> plot_args.font_size]]
            /\ axes_object' = Append(axes_object, "colour_bar")
            /\ pc' = "plot_returned"
       ELSE /\ plot_result' = [kind |-> "raised", in |-> "add_colour_bar"]
            /\ axes_object' = axes_object
            /\ pc' = "plot_raised"
    /\ UNCHANGED plot_args
    /\ UNCHANGED <<matchData, callVars, runVars, findVars, cycloneVars, occlusionVars>>

\* lines 262-291 and 350-377: the checks of plot_saliency and of
\* plot_class_activation
PlotContourCheck ==
    /\ pc = "plot_start"
    /\ plot_args.function \in {"plot_saliency", "plot_class_activation"}
    /\ IF ContourChecksPass(plot_args)
       THEN pc' = "contour_draw" /\ plot_result' = plot_result
       ELSE /\ pc' = "plot_raised"
            /\ plot_result' = [kind |-> "raised", in |-> plot_args.function]
    /\ UNCHANGED <<plot_args, axes_object>>
    /\ UNCHANGED <<matchData, callVars, runVars, findVars, cycloneVars, occlusionVars>>

\* lines 293-323: the positive contours, then the negative ones
PlotSaliencyDraw ==
    /\ pc = "contour_draw"
    /\ plot_args.function = "plot_saliency"
    /\ axes_object' = axes_object \o <<"contour_solid", "contour_dashed">>
    /\ plot_result' =
          [kind |-> "returned",
           value |-> ContourLimits(plot_args.min_contour_value,
                                   plot_args.max_contour_value)]
    /\ pc' = "plot_returned"
    /\ UNCHANGED plot_args
    /\ UNCHANGED <<matchData, callVars, runVars, findVars, cycloneVars, occlusionVars>>

\* lines 379-400: the contours
PlotClassActivationDraw ==
    /\ pc = "contour_draw"
    /\ plot_args.function = "plot_class_activation"
    /\ axes_object' = Append(axes_object, "contour_solid")
    /\ plot_result' =
          [kind |-> "returned",
           value |-> ContourLimits(plot_args.min_contour_value,
                                   plot_args.max_contour_value)]
    /\ pc' = "plot_returned"
    /\ UNCHANGED plot_args
    /\ UNCHANGED <<matchData, callVars, runVars, findVars, cycloneVars, occlusionVars>>

NextPlot ==
    \/ PlotGridCheck
    \/ PlotGridMesh
    \/ PlotGridColourBar
    \/ PlotContourCheck
    \/ PlotSaliencyDraw
    \/ PlotClassActivationDraw

SpecPlot == InitPlot /\ [][NextPlot]_vars

-----------------------------------------------------------------------------
(* Vocabulary of the properties of _match_examples *)

Range(a) == {a[k] : k \in DOMAIN a}

Abs(x) == IF x < 0 THEN -x ELSE x

Min2(x, y) == IF x <= y THEN x ELSE y

\* one longitude in the positive-west (0..360) and negative-west (-180..180) form
PosWest(x) == IF x < 0 THEN x + Deg(360) ELSE x
NegWest(x) == IF x > Deg(180) THEN x - Deg(360) ELSE x

\* squared planar distance
PlanarSq(dlat, dlng) == dlat * dlat + dlng * dlng

\* the squared distance d(n, j) between CNN example n and SHIPS example j:
\* the smaller of the planar distances in the two longitude conventions
PairDistanceSq(n, j) ==
    LET dlat == cnn_prediction_dict.storm_latitudes[n]
                  - ships_prediction_dict.init_latitudes[j]
        a == cnn_prediction_dict.storm_longitudes[n]
        b == ships_prediction_dict.init_longitudes[j]
    IN Min2(PlanarSq(dlat, PosWest(a) - PosWest(b)),
            PlanarSq(dlat, NegWest(a) - NegWest(b)))

ThresholdSq == MAX_DISTANCE_DEG * MAX_DISTANCE_DEG

SameTime(n, j) ==
    ships_prediction_dict.init_times[j] = cnn_prediction_dict.init_times[n]

CnnDomain == DOMAIN cnn_prediction_dict.init_times
ShipsDomain == DOMAIN ships_prediction_dict.init_times

Matched(n) == n \in Range(cnn_indices)

\* separation of two meridians along the shorter arc
CircSep(a, b) ==
    LET d == (a - b) % Deg(360) IN Min2(d, Deg(360) - d)

\* the two longitudes lie on opposite sides of the prime meridian
\* (resp. the antimeridian), less than one degree apart
StraddlePrime(a, b) ==
    /\ CircSep(a, b) < Deg(1)
    /\ Abs((a % Deg(360)) - (b % Deg(360))) > Deg(180)

StraddleAnti(a, b) ==
    /\ CircSep(a, b) < Deg(1)
    /\ Abs(((a + Deg(180)) % Deg(360)) - ((b + Deg(180)) % Deg(360))) > Deg(180)

-----------------------------------------------------------------------------
(* C1 *)

\* C1: every returned pair (cnn_indices[k], ships_indices[k]) has the same
\* initialization time on both sides.
C1_SameInitTime ==
    pc = "done" =>
        \A k \in DOMAIN cnn_indices : SameTime(cnn_indices[k], ships_indices[k])

\* a pair was returned although a SHIPS example with another timestamp is
\* strictly closer to the CNN example
C1_Witness ==
    /\ pc = "done"
    /\ \E k \in DOMAIN cnn_indices : \E j \in ShipsDomain :
          /\ ~SameTime(cnn_indices[k], j)
          /\ PairDistanceSq(cnn_indices[k], j)
               < PairDistanceSq(cnn_indices[k], ships_indices[k])

-----------------------------------------------------------------------------
(* C2 *)

\* C2: the SHIPS example chosen for a matched CNN example is nearest among the
\* SHIPS examples with the same initialization time.
C2_NearestSameTime ==
    pc = "done" =>
        \A k \in DOMAIN cnn_indices : \A j \in ShipsDomain :
            SameTime(cnn_indices[k], j) =>
                PairDistanceSq(cnn_indices[k], ships_indices[k])
                    <= PairDistanceSq(cnn_indices[k], j)

\* the chosen SHIPS example is not the first same-time candidate and is
\* strictly closer than that one
C2_Witness ==
    /\ pc = "done"
    /\ \E k \in DOMAIN cnn_indices : \E j \in ShipsDomain :
          /\ SameTime(cnn_indices[k], j)
          /\ j < ships_indices[k]
          /\ PairDistanceSq(cnn_indices[k], ships_indices[k])
               < PairDistanceSq(cnn_indices[k], j)

-----------------------------------------------------------------------------
(* C3 *)

\* C3 as stated: every returned pair is strictly closer than one degree.
C3_StrictlyBelowThreshold ==
    pc = "done" =>
        \A k \in DOMAIN cnn_indices :
            PairDistanceSq(cnn_indices[k], ships_indices[k]) < ThresholdSq

\* C3, amended: every returned pair is at most one degree apart; a CNN example
\* whose nearest same-time SHIPS example lies at exactly one degree is matched,
\* one whose nearest lies beyond one degree is not.
C3_AtMostThreshold ==
    pc = "done" =>
        /\ \A k \in DOMAIN cnn_indices :
              PairDistanceSq(cnn_indices[k], ships_indices[k]) <= ThresholdSq
        /\ \A n \in CnnDomain :
              (/\ \E j \in ShipsDomain :
                     SameTime(n, j) /\ PairDistanceSq(n, j) = ThresholdSq
               /\ \A j \in ShipsDomain :
                     SameTime(n, j) => PairDistanceSq(n, j) >= ThresholdSq)
              => Matched(n)
        /\ \A n \in CnnDomain :
              (\A j \in ShipsDomain :
                     SameTime(n, j) => PairDistanceSq(n, j) > ThresholdSq)
              => ~Matched(n)

\* a pair at exactly one degree was returned, and a CNN example whose only
\* same-time SHIPS examples lie beyond one degree was left out
C3_Witness ==
    /\ pc = "done"
    /\ \E k \in DOMAIN cnn_indices :
          PairDistanceSq(cnn_indices[k], ships_indices[k]) = ThresholdSq
    /\ \E n \in CnnDomain :
          /\ ~Matched(n)
          /\ \E j \in ShipsDomain : SameTime(n, j)

-----------------------------------------------------------------------------
(* C4 *)

\* C4: nothing is raised; a CNN example with a same-time SHIPS example closer
\* than the threshold is returned; a CNN example with no same-time SHIPS example
\* is not.
C4_Complete ==
    /\ pc # "raised"
    /\ pc = "done" =>
          \A n \in CnnDomain :
              /\ (\E j \in ShipsDomain :
                     SameTime(n, j) /\ PairDistanceSq(n, j) < ThresholdSq)
                 => Matched(n)
              /\ (\A j \in ShipsDomain : ~SameTime(n, j)) => ~Matched(n)

\* one CNN example was matched, another has no same-time SHIPS example
C4_Witness ==
    /\ pc = "done"
    /\ \E n \in CnnDomain : Matched(n)
    /\ \E n \in CnnDomain : \A j \in ShipsDomain : ~SameTime(n, j)

-----------------------------------------------------------------------------
(* C5 *)

\* C5: a CNN example and a same-time SHIPS example at the same latitude, on
\* opposite sides of the prime meridian or of the antimeridian and less than
\* one degree apart, are matched: the CNN example is returned, paired with that
\* SHIPS example or with one at least as near.
C5_MatchedAcrossMeridian ==
    pc = "done" =>
        \A n \in CnnDomain : \A j \in ShipsDomain :
            LET a == cnn_prediction_dict.storm_longitudes[n]
                b == ships_prediction_dict.init_longitudes[j]
            IN (/\ SameTime(n, j)
                /\ cnn_prediction_dict.storm_latitudes[n]
                     = ships_prediction_dict.init_latitudes[j]
                /\ StraddlePrime(a, b) \/ StraddleAnti(a, b))
               => \E k \in DOMAIN cnn_indices :
                     /\ cnn_indices[k] = n
                     /\ PairDistanceSq(n, ships_indices[k])
                          <= CircSep(a, b) * CircSep(a, b)

\* one returned pair lies across the prime meridian, another across the
\* antimeridian
C5_Witness ==
    /\ pc = "done"
    /\ \E k \in DOMAIN cnn_indices :
          /\ StraddlePrime(cnn_prediction_dict.storm_longitudes[cnn_indices[k]],
                           ships_prediction_dict.init_longitudes[ships_indices[k]])
          /\ cnn_prediction_dict.storm_latitudes[cnn_indices[k]]
               = ships_prediction_dict.init_latitudes[ships_indices[k]]
    /\ \E k \in DOMAIN cnn_indices :
          /\ StraddleAnti(cnn_prediction_dict.storm_longitudes[cnn_indices[k]],
                          ships_prediction_dict.init_longitudes[ships_indices[k]])
          /\ cnn_prediction_dict.storm_latitudes[cnn_indices[k]]
               = ships_prediction_dict.init_latitudes[ships_indices[k]]

-----------------------------------------------------------------------------
(* C6 *)

\* the other forms of longitude x that name the same meridian and that the
\* conversion routines accept
EquivalentLngs(x) == {y \in {x + Deg(360), x - Deg(360)} : ValidLng(y)}

\* the dictionaries with one longitude replaced by an equivalent one
CnnRelabelled ==
    UNION {{[cnn_prediction_dict EXCEPT !.storm_longitudes[n] = y] :
               y \in EquivalentLngs(cnn_prediction_dict.storm_longitudes[n])} :
           n \in CnnDomain}

ShipsRelabelled ==
    UNION {{[ships_prediction_dict EXCEPT !.init_longitudes[j] = y] :
               y \in EquivalentLngs(ships_prediction_dict.init_longitudes[j])} :
           j \in ShipsDomain}

Returned == [raised |-> FALSE, cnn_indices |-> cnn_indices,
             ships_indices |-> ships_indices]

\* C6: writing one CNN or SHIPS longitude x as x + 360 or x - 360 does not
\* change what _match_examples returns.
C6_ConventionIndependent ==
    pc = "done" =>
        /\ \A c \in CnnRelabelled :
              match_examples(c, ships_prediction_dict) = Returned
        /\ \A s \in ShipsRelabelled :
              match_examples(cnn_prediction_dict, s) = Returned

\* a pair was returned whose CNN and whose SHIPS longitude both have another
\* form, and relabelling changes which of the two conventions gives the
\* smaller distance
C6_Witness ==
    /\ pc = "done"
    /\ \E k \in DOMAIN cnn_indices :
          LET a == cnn_prediction_dict.storm_longitudes[cnn_indices[k]]
              b == ships_prediction_dict.init_longitudes[ships_indices[k]]
          IN /\ EquivalentLngs(a) # {}
             /\ EquivalentLngs(b) # {}
             /\ \E y \in EquivalentLngs(b) : Abs(a - y) # Abs(a - b)

-----------------------------------------------------------------------------
(* C7 *)

\* C7: the two returned arrays have the same length, at most the number of CNN
\* examples; cnn_indices is strictly increasing and holds CNN indices;
\* ships_indices holds SHIPS indices, never the placeholder -1.
C7_WellFormedIndices ==
    pc = "done" =>
        /\ DOMAIN cnn_indices = DOMAIN ships_indices
        /\ len(cnn_indices) <= len(cnn_prediction_dict.init_times)
        /\ \A k \in DOMAIN cnn_indices : cnn_indices[k] \in CnnDomain
        /\ \A k \in DOMAIN cnn_indices : \A m \in DOMAIN cnn_indices :
              k < m => cnn_indices[k] < cnn_indices[m]
        /\ \A k \in DOMAIN ships_indices : ships_indices[k] \in ShipsDomain

\* two CNN examples were matched, both to the same SHIPS example
C7_Witness ==
    /\ pc = "done"
    /\ len(cnn_indices) = 2
    /\ ships_indices[0] = ships_indices[1]

-----------------------------------------------------------------------------
(* C8 *)

\* calls that were given equal dictionaries returned equal arrays
Deterministic ==
    \A a \in DOMAIN returned : \A b \in DOMAIN returned :
        (returned[a].cnn = returned[b].cnn /\ returned[a].ships = returned[b].ships)
            => (returned[a].cnn_indices = returned[b].cnn_indices
                /\ returned[a].ships_indices = returned[b].ships_indices)

\* while a call runs, the dictionaries it was given keep their arrays
InputsKept ==
    pc \in {"start", "loop"} =>
        /\ cnn_prediction_dict' = cnn_prediction_dict
        /\ ships_prediction_dict' = ships_prediction_dict

\* C8: calls with equal dictionaries return equal arrays whatever was called in
\* between, and no step of a call changes an array of its input dictionaries.
C8_DeterministicStateless == []Deterministic /\ [][InputsKept]_vars

\* three calls have finished: the first and the third were given the same
\* dictionaries, the second was given the same CNN dictionary with another
\* SHIPS dictionary and returned something else
C8_Witness ==
    /\ pc = "done"
    /\ Len(returned) = 3
    /\ returned[1].cnn = returned[3].cnn
    /\ returned[1].ships = returned[3].ships
    /\ returned[2].cnn = returned[1].cnn
    /\ returned[2].ships # returned[1].ships
    /\ returned[2].cnn_indices # returned[1].cnn_indices
    /\ len(returned[1].cnn_indices) = 0

-----------------------------------------------------------------------------
(* C9 *)

\* the SHIPS value behind the written probability of a SHIPS example: the
\* selected RI column, or the selected TD-to-TS label at a lead time in hours
ShipsValue(j, hours) ==
    IF predict_td_to_ts
    THEN LET row == IF use_td_to_ts_lge
                    THEN ships_prediction_dict.forecast_labels_lge[j]
                    ELSE ships_prediction_dict.forecast_labels_land[j]
             m == CHOOSE m \in DOMAIN ships_prediction_dict.lead_times :
                     ships_prediction_dict.lead_times[m] = hours
         IN row[m]
    ELSE ships_prediction_dict.ri_probabilities[j][BoolToInt(use_ri_consensus)]

\* lead times of the columns of the written matrix
WrittenLeadHours(m) ==
    IF predict_td_to_ts THEN cnn_prediction_dict.lead_times[m] ELSE 0

\* C9: in the written file every per-example array has E = number of matched
\* pairs rows; row k of the probability matrix is made from SHIPS example
\* ships_indices[k], row k of every other array is that of CNN example
\* cnn_indices[k]; the pairs are those _match_examples returns.
C9_RowsAgree ==
    pc = "run_written" =>
        LET f == output_file
            E == DOMAIN cnn_indices
            matched == match_examples(cnn_prediction_dict, ships_prediction_dict)
        IN /\ output_file.written
           /\ cnn_indices = matched.cnn_indices
           /\ ships_indices = matched.ships_indices
           /\ DOMAIN ships_indices = E
           /\ DOMAIN f.forecast_probability_matrix = E
           /\ DOMAIN f.target_class_matrix = E
           /\ DOMAIN f.cyclone_id_strings = E
           /\ DOMAIN f.init_times_unix_sec = E
           /\ DOMAIN f.storm_latitudes_deg_n = E
           /\ DOMAIN f.storm_longitudes_deg_e = E
           /\ \A k \in E :
                /\ f.target_class_matrix[k]
                     = cnn_prediction_dict.target_matrix[cnn_indices[k]]
                /\ f.cyclone_id_strings[k]
                     = cnn_prediction_dict.cyclone_ids[cnn_indices[k]]
                /\ f.init_times_unix_sec[k]
                     = cnn_prediction_dict.init_times[cnn_indices[k]]
                /\ f.storm_latitudes_deg_n[k]
                     = cnn_prediction_dict.storm_latitudes[cnn_indices[k]]
                /\ f.storm_longitudes_deg_e[k]
                     = cnn_prediction_dict.storm_longitudes[cnn_indices[k]]
                /\ \A m \in DOMAIN f.forecast_probability_matrix[k][1] :
                     LET v == ShipsValue(ships_indices[k], WrittenLeadHours(m))
                         p == f.forecast_probability_matrix[k][1][m][0]
                         q == f.forecast_probability_matrix[k][0][m][0]
                     IN IF v < -10 THEN p = NaN /\ q = NaN
                        ELSE p = v /\ q = 100 - v

\* a file was written in which some row k comes from a CNN example other than
\* k and from a SHIPS example with yet another index
C9_Witness ==
    /\ pc = "run_written"
    /\ \E k \in DOMAIN cnn_indices :
          /\ cnn_indices[k] # k
          /\ ships_indices[k] # cnn_indices[k]

-----------------------------------------------------------------------------
(* C10 *)

\* the arguments pass the checks of find_file
FindArgsValid ==
    /\ CycloneIdAccepted(find_args.cyclone_id_string)
    /\ find_args.prefer_zipped.type = "bool"
    /\ find_args.allow_other_format.type = "bool"
    /\ find_args.raise_error_if_missing.type = "bool"

\* '<directory_name>/cira_satellite_<cyclone_id_string>.nc', with '.gz' if zipped
ExpectedPath(zipped) ==
    find_args.directory_name
        \o <<"/", "c", "i", "r", "a", "_", "s", "a", "t", "e", "l", "l", "i", "t", "e", "_">>
        \o find_args.cyclone_id_string
        \o (IF zipped THEN <<".", "n", "c", ".", "g", "z">> ELSE <<".", "n", "c">>)

\* a searched file exists: the preferred format or, if allowed, the other one
SearchedFileExists ==
    \/ ExpectedPath(find_args.prefer_zipped.truth) \in files
    \/ /\ find_args.allow_other_format.truth
       /\ ExpectedPath(~find_args.prefer_zipped.truth) \in files

FindEnded == pc \in {"find_returned", "find_raised", "find_rejected"}

\* C10: with arguments that pass the checks, find_file raises ValueError
\* exactly if raise_error_if_missing is True and no searched file exists, and
\* otherwise returns a path; arguments that fail the checks (invalid cyclone
\* ID, flag that is no bool) are rejected before the file system is looked at.
C10_FindFileErrors ==
    /\ num_lookups > 0 => FindArgsValid
    /\ FindEnded =>
          IF FindArgsValid
          THEN /\ find_result.kind = "ValueError"
                    <=> (find_args.raise_error_if_missing.truth /\ ~SearchedFileExists)
               /\ (SearchedFileExists \/ ~find_args.raise_error_if_missing.truth)
                    => /\ find_result.kind = "returned"
                       /\ find_result.value \in {ExpectedPath(TRUE), ExpectedPath(FALSE)}
          ELSE /\ find_result.kind = "rejected"
               /\ num_lookups = 0

\* ValueError was raised although the file exists in the other format, which
\* was not allowed
C10_Witness ==
    /\ pc = "find_raised"
    /\ find_result.kind = "ValueError"
    /\ ~find_args.allow_other_format.truth
    /\ ExpectedPath(~find_args.prefer_zipped.truth) \in files

-----------------------------------------------------------------------------
(* C11 *)

\* the file exists in neither format
NoFormatExists ==
    /\ ExpectedPath(TRUE) \notin files
    /\ ExpectedPath(FALSE) \notin files

\* C11: when the file exists in neither format and raise_error_if_missing is
\* False, find_file returns the path in the preferred format (with '.gz'
\* exactly when prefer_zipped is True), whatever allow_other_format is.
C11_MissingReturnsPreferred ==
    (/\ pc = "find_returned"
     /\ NoFormatExists
     /\ ~find_args.raise_error_if_missing.truth)
        => find_result.value = ExpectedPath(find_args.prefer_zipped.truth)

-----------------------------------------------------------------------------
(* C12 *)

\* C12: the preferred format is looked for first.  If the preferred-format
\* file exists it is what find_file returns, also when the other-format file
\* exists; the other-format path is returned only if allow_other_format is
\* True and the preferred-format file does not exist; with allow_other_format
\* False the returned path has the preferred format.
C12_PreferredFirst ==
    pc = "find_returned" =>
        LET preferred == ExpectedPath(find_args.prefer_zipped.truth)
            other == ExpectedPath(~find_args.prefer_zipped.truth)
        IN  /\ preferred \in files => find_result.value = preferred
            /\ find_result.value = other
                  => (find_args.allow_other_format.truth /\ preferred \notin files)
            /\ ~find_args.allow_other_format.truth => find_result.value = preferred

\* both formats exist, the other one is allowed, and the preferred one came back
C12_Witness ==
    /\ pc = "find_returned"
    /\ ExpectedPath(TRUE) \in files
    /\ ExpectedPath(FALSE) \in files
    /\ find_args.allow_other_format.truth
    /\ find_result.value = ExpectedPath(find_args.prefer_zipped.truth)

-----------------------------------------------------------------------------
(* C15 *)

\* C15: round trip.  For a valid cyclone ID c and any directory, prefer_zipped
\* and allow_other_format, file_name_to_cyclone_id applied to the path returned
\* by find_file(d, c, raise_error_if_missing=False) returns c.
C15_RoundTrip ==
    (pc = "find_parsed" /\ ~find_args.raise_error_if_missing.truth)
        => parsed_id = [kind |-> "returned", value |-> find_args.cyclone_id_string]

\* the round trip was made through a '.nc.gz' path of a missing file in a
\* directory whose name has a '.' and a '_'
C15_Witness ==
    /\ pc = "find_parsed"
    /\ ~find_args.raise_error_if_missing.truth
    /\ find_args.directory_name = <<"a", ".", "b", "_", "c">>
    /\ find_result.value = ExpectedPath(TRUE)
    /\ find_result.value \notin files
    /\ parsed_id.kind = "returned"

-----------------------------------------------------------------------------
(* C13 *)

\* the cyclone IDs that parse and have a file 'cira_satellite_<ID>.nc' or
\* 'cira_satellite_<ID>.nc.gz' in the directory
CyclonesInDirectory ==
    {id \in CycCycloneIds :
        /\ CycloneIdAccepted(id)
        /\ \E extension \in {<<>>, GZIP_FILE_EXTENSION} :
              FormatFileName(cyc_args.directory_name, id, extension) \in files}

\* C13: the list find_cyclones returns is sorted ascending without duplicates
\* and holds exactly the IDs that parse from the files named
\* cira_satellite_<ID>.nc or cira_satellite_<ID>.nc.gz in the directory: a
\* cyclone with a zipped and an unzipped file is there once, and a file whose
\* ID does not parse adds nothing and raises nothing.
C13_SortedUniqueIds ==
    pc = "cyc_returned" =>
        LET ids == cyc_result.value
        IN  /\ \A k \in 1..(Len(ids) - 1) : StrLess(ids[k], ids[k + 1])
            /\ {ids[k] : k \in 1..Len(ids)} = CyclonesInDirectory

\* two cyclones came back in ascending order although glob.glob gave them in
\* the other order; one of them has both a zipped and an unzipped file, and the
\* directory also has a file whose ID does not parse
C13_Witness ==
    /\ pc = "cyc_returned"
    /\ cyc_result.value = <<<<"2", "0", "0", "4", "E", "P", "0", "1">>,
                            <<"2", "0", "0", "5", "A", "L", "1", "2">>>>
    /\ satellite_file_names[1] =
          FormatFileName(<<"d">>, <<"2", "0", "0", "5", "A", "L", "1", "2">>, <<>>)
    /\ FormatFileName(<<"d">>, <<"2", "0", "0", "5", "A", "L", "1", "2">>,
                      GZIP_FILE_EXTENSION) \in files
    /\ FormatFileName(<<"d">>, <<"2", "0", "0", "5", "Z", "Z", "1", "2">>, <<>>) \in files

-----------------------------------------------------------------------------
(* C14 *)

CycEnded == pc \in {"cyc_returned", "cyc_raised"}

\* C14: find_cyclones raises ValueError exactly if no cyclone ID is found and
\* raise_error_if_all_missing is True; if no cyclone ID is found and the flag
\* is False it returns the empty list.
C14_AllMissingError ==
    CycEnded =>
        /\ cyc_result.kind = "ValueError"
              <=> (CyclonesInDirectory = {}
                     /\ cyc_args.raise_error_if_all_missing.truth)
        /\ (CyclonesInDirectory = {} /\ ~cyc_args.raise_error_if_all_missing.truth)
              => cyc_result = [kind |-> "returned", value |-> <<>>]

\* ValueError was raised in a directory whose only matching file has an ID
\* that does not parse
C14_Witness ==
    /\ pc = "cyc_raised"
    /\ cyc_result.kind = "ValueError"
    /\ Len(satellite_file_names) = 1
    /\ cyclone_id_strings = <<>>

-----------------------------------------------------------------------------
(* C16 *)

\* the map array that the flag selects
SelectedKey ==
    IF occ_args.plot_normalized_occlusion
    THEN "normalized_occlusion_matrix"
    ELSE "occlusion_prob_matrix"

\* the map array as read differs from its smoothed form
SmoothingChanges(key) ==
    \E k \in DOMAIN occ_read[key] :
        apply_gaussian_filter(occ_read[key][k], occ_args.smoothing_radius_px)
            # occ_read[key][k]

\* C16: a smoothing radius of 0 or less means no smoothing: the dictionary
\* given to the plotting is the one read from the file.  With a positive
\* radius only the selected map array (normalized occlusion if
\* plot_normalized_occlusion, else occlusion probabilities) is replaced, by
\* its smoothed maps; every other entry, the other map array included, stays
\* as read, at every step of _smooth_maps.
C16_SmoothOnlySelected ==
    /\ pc \in {"occ_smooth", "occ_ready", "occ_plotted"} =>
          \A key \in DOMAIN occlusion_dict :
              key # SelectedKey => occlusion_dict[key] = occ_read[key]
    /\ pc = "occ_plotted" =>
          IF occ_args.smoothing_radius_px <= 0
          THEN occ_plotted.occlusion_dict = occ_read
          ELSE /\ DOMAIN occ_plotted.occlusion_dict = DOMAIN occ_read
               /\ \A key \in DOMAIN occ_read :
                     occ_plotted.occlusion_dict[key] =
                        IF key = SelectedKey
                        THEN [k \in DOMAIN occ_read[key] |->
                                apply_gaussian_filter(
                                    occ_read[key][k], occ_args.smoothing_radius_px)]
                        ELSE occ_read[key]

\* occlusion probabilities were smoothed and plotted, the smoothing changed
\* them, and it would have changed the normalized maps too
C16_Witness ==
    /\ pc = "occ_plotted"
    /\ occ_args.smoothing_radius_px > 0
    /\ ~occ_args.plot_normalized_occlusion
    /\ occ_plotted.occlusion_dict["occlusion_prob_matrix"]
          # occ_read["occlusion_prob_matrix"]
    /\ SmoothingChanges("normalized_occlusion_matrix")

-----------------------------------------------------------------------------
(* C17 *)

\* C17: in the rapid-intensification branch use_ri_consensus = 1 takes the
\* consensus model (column 1 of the SHIPS RI probabilities) and 0 the SHIPS-RII
\* model (column 0): the probability written for matched example k is that
\* column at row ships_indices[k] (NaN where SHIPS has no forecast).
C17_ConsensusColumn ==
    (pc = "run_written" /\ ~predict_td_to_ts) =>
        \A k \in DOMAIN ships_indices :
            LET column == IF use_ri_consensus THEN 1 ELSE 0
                v == ships_prediction_dict.ri_probabilities[ships_indices[k]][column]
                p == output_file.forecast_probability_matrix[k][1][0][0]
            IN  IF v < -10 THEN p = NaN ELSE p = v

\* the consensus probability of a SHIPS example was written, and it is not the
\* SHIPS-RII probability of that example
C17_Witness ==
    /\ pc = "run_written"
    /\ ~predict_td_to_ts
    /\ use_ri_consensus
    /\ \E k \in DOMAIN ships_indices :
          LET row == ships_prediction_dict.ri_probabilities[ships_indices[k]]
          IN  /\ output_file.forecast_probability_matrix[k][1][0][0] = row[1]
              /\ row[1] # row[0]

-----------------------------------------------------------------------------
(* C18 *)

\* latitudes, longitudes and matrix are what plot_2d_grid_regular asks for:
\* 1-D, strictly increasing, latitudes within -90...90, an M-by-N matrix of
\* positive temperatures or NaN
GridInputsValid ==
    /\ plot_args.latitudes_deg_n = Array1(<<Deg(10), Deg(20)>>)
    /\ plot_args.longitudes_deg_e \in
          {Array1(<<Deg(10), Deg(20)>>), Array1(<<Deg(350), Deg(10)>>)}
    /\ plot_args.matrix \in {Array2(<<<<250, 260>>, <<270, 280>>>>),
                             Array2(<<<<250, NaN>>, <<270, 280>>>>)}

PlotEnded == pc \in {"plot_returned", "plot_raised"}

\* C18: plot_2d_grid_regular accepts cbar_orientation_string = None: it then
\* draws the mesh, adds no colour bar and returns None.  With another
\* orientation what it returns is the colour-bar handle of add_colour_bar,
\* and the colour bar is drawn after the mesh.
C18_NoColourBarForNone ==
    (PlotEnded /\ plot_args.function = "plot_2d_grid_regular") =>
        /\ (plot_args.cbar_orientation_string.type = "NoneType" /\ GridInputsValid)
              => /\ plot_result.kind = "returned"
                 /\ plot_result.value.type = "NoneType"
                 /\ axes_object = <<"pcolormesh">>
        /\ (plot_args.cbar_orientation_string.type # "NoneType"
               /\ plot_result.kind = "returned")
              => /\ plot_result.value.type = "colour_bar_object"
                 /\ plot_result.value.orientation_string
                       = plot_args.cbar_orientation_string
                 /\ axes_object = <<"pcolormesh", "colour_bar">>

\* the mesh was drawn without a colour bar and None came back, although the
\* font size is one that add_colour_bar would have refused
C18_Witness ==
    /\ pc = "plot_returned"
    /\ plot_args.function = "plot_2d_grid_regular"
    /\ plot_args.cbar_orientation_string.type = "NoneType"
    /\ plot_args.font_size.value = 0
    /\ plot_result.value.type = "NoneType"
    /\ axes_object = <<"pcolormesh">>

-----------------------------------------------------------------------------
(* C19 *)

\* C19: in plot_2d_grid_regular, plot_saliency and plot_class_activation the
\* input checks come before the first drawing call, so a call that fails a
\* check leaves the axes with nothing drawn.
C19_ChecksBeforeDrawing ==
    pc = "plot_raised" => axes_object = <<>>

====
